---------------------------- MODULE Spec2Model ----------------------------
(***************************************************************************)
(* A model of range-v3's iterator concepts                                 *)
(* (include/range/v3/utility/iterator_concepts.hpp).                       *)
(*                                                                         *)
(* The header is a compile-time program: its inputs are types, its         *)
(* operations are template instantiations, its results are types, truth    *)
(* values or a failed substitution.  A state of the model is one           *)
(* translation unit: the types it declares and the instantiation it made   *)
(* last, with what that instantiation yielded.                             *)
(*                                                                         *)
(*   SpecTag   the iterator-category tags and the two tag conversions      *)
(*   Spec      the iterator concepts of one candidate type                 *)
(*   SpecIndirect  the indirect and composite concepts of algorithms       *)
(***************************************************************************)
EXTENDS Naturals, Sequences, FiniteSets

VARIABLES
    orig,       \* SpecTag: the tag type the chain of conversions started from
    Reference,  \* SpecTag: the Reference argument of as_std_iterator_category
    arg,        \* SpecTag: the argument of the conversion applied last
    cur,        \* SpecTag: the type the chain has produced so far
    steps,      \* SpecTag: the conversions applied, oldest first
    I,          \* Spec: the candidate type, described by what it declares
    qual,       \* Spec: the cv/reference qualifier on the template argument
    query,      \* Spec: the template instantiated last
    result,     \* Spec: what that instantiation yielded
    O,          \* SpecIndirect: the destination cursor type
    P,          \* SpecIndirect: the projection
    Fun,        \* SpecIndirect: the callable
    S,          \* SpecRange: the sentinel type
    CommonT,    \* SpecRange: the common type of I and S, when it is a third type
    facts,      \* SpecRange: what holds between I and S
    stack,      \* SpecRange: the SizedIteratorRange instantiations in progress
    ret,        \* SpecRange: the answer of the instantiation that ended last
    count       \* SpecRange: SizedIteratorRange instantiations of this query

tagvars == <<orig, Reference, arg, cur, steps>>

itervars == <<I, qual, query, result>>

argvars == <<O, P, Fun>>

rangevars == <<S, CommonT, facts, stack, ret, count>>

vars == <<tagvars, itervars, argvars, rangevars>>

(***************************************************************************)
(* Types.  A failed substitution (a missing nested ::type, an incomplete   *)
(* class) is NoType.                                                       *)
(***************************************************************************)
NoType == "<no type>"

weak_input_iterator_tag    == "ranges::weak_input_iterator_tag"
input_iterator_tag         == "ranges::input_iterator_tag"
forward_iterator_tag       == "ranges::forward_iterator_tag"
bidirectional_iterator_tag == "ranges::bidirectional_iterator_tag"
random_access_iterator_tag == "ranges::random_access_iterator_tag"

std_input_iterator_tag         == "std::input_iterator_tag"
std_forward_iterator_tag       == "std::forward_iterator_tag"
std_bidirectional_iterator_tag == "std::bidirectional_iterator_tag"
std_random_access_iterator_tag == "std::random_access_iterator_tag"

\* The five tags of this library, and the four of the standard library.
NativeTags ==
    { weak_input_iterator_tag, input_iterator_tag, forward_iterator_tag,
      bidirectional_iterator_tag, random_access_iterator_tag }

ExternalTags ==
    { std_input_iterator_tag, std_forward_iterator_tag,
      std_bidirectional_iterator_tag, std_random_access_iterator_tag }

\* Types that are no iterator tag at all.
OtherTypes == { "int", "user::my_tag" }

TagArguments == NativeTags \cup ExternalTags \cup OtherTypes

\* The direct base class of each tag struct ("" for none).
TagBase(t) ==
    CASE t = input_iterator_tag         -> weak_input_iterator_tag
      [] t = forward_iterator_tag       -> input_iterator_tag
      [] t = bidirectional_iterator_tag -> forward_iterator_tag
      [] t = random_access_iterator_tag -> bidirectional_iterator_tag
      [] OTHER                          -> ""

\* The Reference arguments tried: lvalue and rvalue references, and values.
ReferenceTypes == { "value_type &", "value_type const &", "value_type &&", "value_type" }

is_reference(R) == R \in { "value_type &", "value_type const &", "value_type &&" }

\* Faulty variant: the primary template without its member type (no fallback).
as_ranges_no_fallback(T) ==
    CASE T = std_input_iterator_tag         -> input_iterator_tag
      [] T = std_forward_iterator_tag       -> forward_iterator_tag
      [] T = std_bidirectional_iterator_tag -> bidirectional_iterator_tag
      [] T = std_random_access_iterator_tag -> random_access_iterator_tag
      [] OTHER                              -> NoType

(***************************************************************************)
(* detail::as_ranges_iterator_category<T>::type                            *)
(***************************************************************************)
as_ranges_iterator_category(T) ==
    CASE T = std_input_iterator_tag         -> input_iterator_tag
      [] T = std_forward_iterator_tag       -> forward_iterator_tag
      [] T = std_bidirectional_iterator_tag -> bidirectional_iterator_tag
      [] T = std_random_access_iterator_tag -> random_access_iterator_tag
      [] OTHER                              -> T

\* Faulty variant: the bidirectional specialization names the forward tag.
as_std_bidirectional_as_forward(Tag, R) ==
    CASE Tag = weak_input_iterator_tag -> NoType
      [] Tag = input_iterator_tag      -> std_input_iterator_tag
      [] Tag = forward_iterator_tag ->
            IF is_reference(R) THEN std_forward_iterator_tag
                               ELSE std_input_iterator_tag
      [] Tag = bidirectional_iterator_tag ->
            IF is_reference(R) THEN std_forward_iterator_tag
                               ELSE std_input_iterator_tag
      [] Tag = random_access_iterator_tag ->
            IF is_reference(R) THEN std_random_access_iterator_tag
                               ELSE std_input_iterator_tag
      [] OTHER -> NoType

\* Faulty variant: the forward specialization forgets the test of Reference.
as_std_forward_unconditional(Tag, R) ==
    CASE Tag = weak_input_iterator_tag -> NoType
      [] Tag = input_iterator_tag      -> std_input_iterator_tag
      [] Tag = forward_iterator_tag    -> std_forward_iterator_tag
      [] Tag = bidirectional_iterator_tag ->
            IF is_reference(R) THEN std_bidirectional_iterator_tag
                               ELSE std_input_iterator_tag
      [] Tag = random_access_iterator_tag ->
            IF is_reference(R) THEN std_random_access_iterator_tag
                               ELSE std_input_iterator_tag
      [] OTHER -> NoType

(***************************************************************************)
(* detail::as_std_iterator_category<Tag, Reference>::type.  The primary    *)
(* template is declared and never defined, and the weak-input              *)
(* specialization has no member type.                                      *)
(***************************************************************************)
as_std_iterator_category(Tag, R) ==
    CASE Tag = weak_input_iterator_tag -> NoType
      [] Tag = input_iterator_tag      -> std_input_iterator_tag
      [] Tag = forward_iterator_tag ->
            IF is_reference(R) THEN std_forward_iterator_tag
                               ELSE std_input_iterator_tag
      [] Tag = bidirectional_iterator_tag ->
            IF is_reference(R) THEN std_bidirectional_iterator_tag
                               ELSE std_input_iterator_tag
      [] Tag = random_access_iterator_tag ->
            IF is_reference(R) THEN std_random_access_iterator_tag
                               ELSE std_input_iterator_tag
      [] OTHER -> NoType

(***************************************************************************)
(* SpecTag: a chain of tag conversions, each applied to the result of the  *)
(* one before.  A chain ends when a conversion has no result.              *)
(***************************************************************************)
MaxSteps == 3

InitTag ==
    /\ orig \in TagArguments
    /\ Reference \in ReferenceTypes
    /\ arg = NoType
    /\ cur = orig
    /\ steps = <<>>
    /\ S = NoType
    /\ CommonT = NoType
    /\ facts = NoType
    /\ stack = <<>>
    /\ ret = <<>>
    /\ count = 0
    /\ I = NoType
    /\ qual = ""
    /\ query = ""
    /\ result = NoType
    /\ O = NoType
    /\ P = NoType
    /\ Fun = NoType

ToNative ==
    /\ Len(steps) < MaxSteps
    /\ cur # NoType
    /\ arg' = cur
    /\ cur' = as_ranges_iterator_category(cur)
    /\ steps' = Append(steps, "as_ranges")
    /\ UNCHANGED <<orig, Reference, itervars, argvars, rangevars>>

ToStd ==
    /\ Len(steps) < MaxSteps
    /\ cur # NoType
    /\ arg' = cur
    /\ cur' = as_std_iterator_category(cur, Reference)
    /\ steps' = Append(steps, "as_std")
    /\ UNCHANGED <<orig, Reference, itervars, argvars, rangevars>>

NextTag == ToNative \/ ToStd

SpecTag == InitTag /\ [][NextTag]_vars

(***************************************************************************)
(* Candidate types.  A type is described by the declarations the concepts  *)
(* look at:                                                                *)
(*   shape               "pointer", "class", or "scalar"                   *)
(*   iterator_category   the member alias of a class, NoType without one   *)
(*   ctor                "none", "copy" (copyable), "copy+default"         *)
(*   equality            "none", "==" (operator==), "<" (== and ordering)  *)
(*   read                "none", "deref" (operator* alone), "readable"     *)
(*                       (operator*, a value type, and the common          *)
(*                       references Readable asks for)                     *)
(*   integral_difference difference_type is an integral type               *)
(*   increment           "none", "pre" (++i alone), and with ++i the       *)
(*                       result of i++: "void", "proxy" (a readable proxy),*)
(*                       "I" (the iterator by value)                       *)
(*   decrement           --i, i-- and *i-- as BidirectionalIterator asks   *)
(*   arithmetic          i - i, i + n, n + i, i - n, i += n, i -= n, i[n]  *)
(***************************************************************************)
AliasTypes == ExternalTags \cup NativeTags \cup { "user::my_tag", NoType }

ClassTypes ==
    [ shape : {"class"},
      iterator_category : AliasTypes,
      ctor : {"none", "copy", "copy+default"},
      equality : {"none", "==", "<"},
      read : {"none", "deref", "readable"},
      integral_difference : BOOLEAN,
      increment : {"none", "pre", "void", "proxy", "I"},
      decrement : BOOLEAN,
      arithmetic : BOOLEAN ]

\* value_type *: every operation of a random-access iterator, no members.
ObjectPointer ==
    [ shape |-> "pointer", iterator_category |-> NoType, ctor |-> "copy+default",
      equality |-> "<", read |-> "readable", integral_difference |-> TRUE,
      increment |-> "I", decrement |-> TRUE, arithmetic |-> TRUE ]

\* void *: a pointer that can be neither dereferenced nor stepped.
VoidPointer ==
    [ shape |-> "pointer", iterator_category |-> NoType, ctor |-> "copy+default",
      equality |-> "<", read |-> "none", integral_difference |-> FALSE,
      increment |-> "none", decrement |-> FALSE, arithmetic |-> FALSE ]

\* int: incrementable, with an integral difference type, not dereferenceable.
Scalar ==
    [ shape |-> "scalar", iterator_category |-> NoType, ctor |-> "copy+default",
      equality |-> "<", read |-> "none", integral_difference |-> TRUE,
      increment |-> "I", decrement |-> TRUE, arithmetic |-> FALSE ]

CandidateTypes == ClassTypes \cup { ObjectPointer, VoidPointer, Scalar }

\* The qualifiers a template argument may carry: T, T const, T &, T const &.
Qualifiers == { "", "const", "&", "const &" }

(***************************************************************************)
(* The concepts this header takes from utility/concepts.hpp, read off the  *)
(* type's declarations.                                                    *)
(***************************************************************************)
Copyable(T) == T.ctor \in {"copy", "copy+default"}

SemiRegular(T) == T.ctor = "copy+default"

EqualityComparable(T) == T.equality \in {"==", "<"}

Regular(T) == SemiRegular(T) /\ EqualityComparable(T)

TotallyOrdered(T) == T.equality = "<"

RECURSIVE Derived(_, _)
\* Derived<A, B>: B is A or one of A's base classes.
Derived(A, B) ==
    IF A = B THEN A # NoType
    ELSE IF TagBase(A) = "" THEN FALSE
    ELSE Derived(TagBase(A), B)

(***************************************************************************)
(* iterator_category_type<T>                                               *)
(***************************************************************************)
\* uncvref_t<T>: the type without its reference and cv qualifiers.
uncvref_t(T, q) == <<T, "">>

\* detail::iterator_category_type<U>.  The T * specialization matches an
\* unqualified pointer only; T::iterator_category can be named through a
\* const class type and not through a reference.
detail_iterator_category_type(U) ==
    LET T == U[1]
        q == U[2]
    IN  CASE T.shape = "pointer" /\ q = "" -> random_access_iterator_tag
          [] T.shape = "class" /\ q \in {"", "const"}
                /\ T.iterator_category # NoType ->
                    as_ranges_iterator_category(T.iterator_category)
          [] OTHER -> NoType

\* Faulty variant: the qualifiers are not stripped.
iterator_category_type_qualified(T, q) ==
    detail_iterator_category_type(<<T, q>>)

iterator_category_type(T, q) ==
    detail_iterator_category_type(uncvref_t(T, q))

(***************************************************************************)
(* namespace concepts.  A concept holds when every concept it refines      *)
(* holds and every expression of its requires_ is valid.                   *)
(***************************************************************************)
\* Faulty variant: the requirements also name the member-access type.
Readable_with_pointer_t(T) ==
    /\ SemiRegular(T)
    /\ T.read = "readable"
    /\ \/ T.shape = "pointer"
       \/ T.shape = "class" /\ "arrow" \in DOMAIN T /\ T.arrow # NoType

Readable(T) ==
    /\ SemiRegular(T)
    /\ T.read = "readable"

WeaklyIncrementable(T) ==
    /\ SemiRegular(T)
    /\ T.integral_difference
    /\ T.increment # "none"
    /\ T.increment \in {"void", "proxy", "I"}

Incrementable(T) ==
    /\ Regular(T)
    /\ WeaklyIncrementable(T)
    /\ T.increment = "I"

WeakIterator(T) ==
    /\ WeaklyIncrementable(T)
    /\ Copyable(T)
    /\ T.read # "none"

Iterator(T) ==
    /\ WeakIterator(T)
    /\ EqualityComparable(T)

\* WeakInputIterator::category_t<I>
category_t(T) == iterator_category_type(T, "")

\* concepts::model_of<Readable>(i++)
PostIncrementReadable(T) ==
    CASE T.increment = "I"     -> Readable(T)
      [] T.increment = "proxy" -> TRUE
      [] OTHER                 -> FALSE

WeakInputIterator(T) ==
    /\ WeakIterator(T)
    /\ Readable(T)
    /\ Derived(category_t(T), weak_input_iterator_tag)
    /\ PostIncrementReadable(T)

InputIterator(T) ==
    /\ WeakInputIterator(T)
    /\ Iterator(T)
    /\ EqualityComparable(T)
    /\ Derived(category_t(T), input_iterator_tag)

\* Faulty variant: the test of the category tag is left out.
ForwardIterator_untagged(T) ==
    /\ InputIterator(T)
    /\ Incrementable(T)

ForwardIterator(T) ==
    /\ InputIterator(T)
    /\ Incrementable(T)
    /\ Derived(category_t(T), forward_iterator_tag)

BidirectionalIterator(T) ==
    /\ ForwardIterator(T)
    /\ Derived(category_t(T), bidirectional_iterator_tag)
    /\ T.decrement

\* Faulty variant: the refinement of BidirectionalIterator is left out.
RandomAccessIterator_unrefined(T) ==
    /\ TotallyOrdered(T)
    /\ Derived(category_t(T), random_access_iterator_tag)
    /\ T.arithmetic

RandomAccessIterator(T) ==
    /\ BidirectionalIterator(T)
    /\ TotallyOrdered(T)
    /\ Derived(category_t(T), random_access_iterator_tag)
    /\ T.arithmetic

\* concepts::models<Concept, T>
models(Concept, T) ==
    CASE Concept = "Readable"              -> Readable(T)
      [] Concept = "WeaklyIncrementable"   -> WeaklyIncrementable(T)
      [] Concept = "Incrementable"         -> Incrementable(T)
      [] Concept = "WeakIterator"          -> WeakIterator(T)
      [] Concept = "Iterator"              -> Iterator(T)
      [] Concept = "WeakInputIterator"     -> WeakInputIterator(T)
      [] Concept = "InputIterator"         -> InputIterator(T)
      [] Concept = "ForwardIterator"       -> ForwardIterator(T)
      [] Concept = "BidirectionalIterator" -> BidirectionalIterator(T)
      [] Concept = "RandomAccessIterator"  -> RandomAccessIterator(T)

RECURSIVE most_refined(_, _)
\* concepts::most_refined<meta::list<Concepts...>, T>: the first concept of
\* the list that T models; no type when it models none.
most_refined(Concepts, T) ==
    IF Concepts = <<>> THEN NoType
    ELSE IF models(Head(Concepts), T) THEN Head(Concepts)
    ELSE most_refined(Tail(Concepts), T)

\* Faulty variant: the list written weakest first.
iterator_concept_list_reversed ==
    << "WeakInputIterator", "InputIterator", "ForwardIterator",
       "BidirectionalIterator", "RandomAccessIterator" >>

iterator_concept_list ==
    << "RandomAccessIterator", "BidirectionalIterator", "ForwardIterator",
       "InputIterator", "WeakInputIterator" >>

iterator_concept(T) == most_refined(iterator_concept_list, T)

\* Faulty variant: single-pass tested on InputIterator.
SinglePass_of_input(T) == InputIterator(T) /\ ~ForwardIterator(T)

SinglePass(T) == WeakInputIterator(T) /\ ~ForwardIterator(T)

(***************************************************************************)
(* Spec: one candidate type and the templates instantiated with it.        *)
(***************************************************************************)
Init ==
    /\ I \in CandidateTypes
    /\ O = NoType
    /\ P = NoType
    /\ Fun = NoType
    /\ qual = ""
    /\ query = ""
    /\ result = NoType
    /\ orig = NoType
    /\ Reference = NoType
    /\ arg = NoType
    /\ cur = NoType
    /\ steps = <<>>
    /\ S = NoType
    /\ CommonT = NoType
    /\ facts = NoType
    /\ stack = <<>>
    /\ ret = <<>>
    /\ count = 0

Instantiate(name, q, value) ==
    /\ query' = name
    /\ qual' = q
    /\ result' = value
    /\ UNCHANGED <<I, tagvars, argvars, rangevars>>

QueryIteratorCategoryType ==
    \E q \in Qualifiers :
        Instantiate("iterator_category_type", q, iterator_category_type(I, q))

QueryReadable == Instantiate("Readable", "", Readable(I))

QueryWeaklyIncrementable ==
    Instantiate("WeaklyIncrementable", "", WeaklyIncrementable(I))

QueryIncrementable == Instantiate("Incrementable", "", Incrementable(I))

QueryWeakIterator == Instantiate("WeakIterator", "", WeakIterator(I))

QueryIterator == Instantiate("Iterator", "", Iterator(I))

QueryWeakInputIterator ==
    Instantiate("WeakInputIterator", "", WeakInputIterator(I))

QueryInputIterator == Instantiate("InputIterator", "", InputIterator(I))

QueryForwardIterator == Instantiate("ForwardIterator", "", ForwardIterator(I))

QueryBidirectionalIterator ==
    Instantiate("BidirectionalIterator", "", BidirectionalIterator(I))

QueryRandomAccessIterator ==
    Instantiate("RandomAccessIterator", "", RandomAccessIterator(I))

QueryIteratorConcept == Instantiate("iterator_concept", "", iterator_concept(I))

QuerySinglePass == Instantiate("SinglePass", "", SinglePass(I))

Next ==
    \/ QueryIteratorCategoryType
    \/ QueryReadable
    \/ QueryWeaklyIncrementable
    \/ QueryIncrementable
    \/ QueryWeakIterator
    \/ QueryIterator
    \/ QueryWeakInputIterator
    \/ QueryInputIterator
    \/ QueryForwardIterator
    \/ QueryBidirectionalIterator
    \/ QueryRandomAccessIterator
    \/ QueryIteratorConcept
    \/ QuerySinglePass

Spec == Init /\ [][Next]_vars

(***************************************************************************)
(* pointer_type<T>.  Here a candidate type carries one more declaration:   *)
(*   arrow   the result type of its operator->, NoType without one         *)
(***************************************************************************)
\* What an instantiation that is an error outside the immediate context
\* leaves behind: the translation unit does not compile.
HardError == "<hard error>"

ArrowTypes == { NoType, "value_type *" }

\* The type T with the declaration arrow added (or replaced).
WithArrow(T, a) ==
    [ f \in (DOMAIN T) \cup {"arrow"} |-> IF f = "arrow" THEN a ELSE T[f] ]

\* The type T with another member alias iterator_category (none for NoType).
WithCategory(T, tag) == [ T EXCEPT !.iterator_category = tag ]

\* detail::pointer_type<U>.  The primary template has no member type; the
\* T * specialization gives the pointer itself; the specialization for
\* classes names the result of operator-> in a member declaration, which
\* is an error, and no substitution failure, for a class without one.
detail_pointer_type(U) ==
    LET T == U[1]
        q == U[2]
    IN  CASE T.shape = "pointer" /\ q = "" ->
                IF T.read = "readable" THEN "value_type *" ELSE "void *"
          [] T.shape = "class" /\ q \in {"", "const"} ->
                IF T.arrow # NoType THEN T.arrow ELSE HardError
          [] OTHER -> NoType

pointer_type(T, q) == detail_pointer_type(uncvref_t(T, q))

\* Readable::pointer_t<I>
pointer_t(T) == pointer_type(T, "")

(***************************************************************************)
(* SpecLazy: one candidate type with or without operator->, and the        *)
(* associated-type templates and concepts instantiated with it.            *)
(***************************************************************************)
LazyCategories ==
    { NoType, "user::my_tag", std_input_iterator_tag, forward_iterator_tag,
      std_random_access_iterator_tag }

LazyTypes ==
    { WithArrow(T, a) :
        T \in { X \in ClassTypes : /\ X.iterator_category \in LazyCategories
                                   /\ X.ctor = "copy+default"
                                   /\ X.integral_difference },
        a \in ArrowTypes }
    \cup { WithArrow(T, NoType) : T \in { ObjectPointer, VoidPointer, Scalar } }

InitLazy ==
    /\ I \in LazyTypes
    /\ O = NoType
    /\ P = NoType
    /\ Fun = NoType
    /\ qual = ""
    /\ query = ""
    /\ result = NoType
    /\ orig = NoType
    /\ Reference = NoType
    /\ arg = NoType
    /\ cur = NoType
    /\ steps = <<>>
    /\ S = NoType
    /\ CommonT = NoType
    /\ facts = NoType
    /\ stack = <<>>
    /\ ret = <<>>
    /\ count = 0

QueryPointerType ==
    \E q \in Qualifiers : Instantiate("pointer_type", q, pointer_type(I, q))

NextLazy ==
    \/ QueryPointerType
    \/ QueryIteratorCategoryType
    \/ QueryReadable
    \/ QueryWeaklyIncrementable
    \/ QueryIncrementable
    \/ QueryWeakIterator
    \/ QueryIterator
    \/ QueryWeakInputIterator
    \/ QueryInputIterator
    \/ QueryForwardIterator
    \/ QueryBidirectionalIterator
    \/ QueryRandomAccessIterator

SpecLazy == InitLazy /\ [][NextLazy]_vars

(***************************************************************************)
(* Value types and expression types.  An expression type is <<base, ref>>  *)
(* with ref one of "" (an object type or prvalue), "&", "const &", "&&";   *)
(* NoExpr is an expression type that failed to form.                       *)
(*   int     copyable, movable, ordered by <                               *)
(*   unique  move-only, ordered by <                                       *)
(*   pinned  neither copyable nor movable, ordered by <                    *)
(*   opaque  copyable, movable, no operator<                               *)
(*   A, B    two unrelated copyable class types;  bool                     *)
(***************************************************************************)
NoExpr == <<NoType, "">>

ElementTypes == { "int", "unique", "pinned", "opaque" }

copy_constructible(b) == b \in { "int", "opaque", "A", "B", "bool" }

move_constructible(b) == b \in { "int", "opaque", "A", "B", "bool", "unique" }

less_than_comparable(b) == b \in { "int", "unique", "pinned", "bool" }

\* T &&, by reference collapsing.
add_rvalue_reference(T) ==
    IF T = NoExpr THEN NoExpr
    ELSE IF T[2] = "" THEN <<T[1], "&&">> ELSE T

\* T const &, by reference collapsing.
add_const_lvalue_reference(T) ==
    IF T = NoExpr THEN NoExpr
    ELSE IF T[2] \in {"", "&&", "const &"} THEN <<T[1], "const &">> ELSE T

\* Movable<V>: V can be move-constructed and move-assigned.
Movable(V) == V # NoExpr /\ V[2] = "" /\ move_constructible(V[1])

\* Convertible<From, To> to an object type To: by move or copy construction
\* within one type, by the arithmetic conversions between int and bool.
Convertible(From, To) ==
    /\ From # NoExpr /\ To # NoExpr
    /\ IF From[1] = To[1]
          THEN \/ copy_constructible(To[1])
               \/ From[2] \in {"", "&&"} /\ move_constructible(To[1])
          ELSE {From[1], To[1]} = {"int", "bool"}

\* CommonReference<Ts...>: the types are pairwise the same type up to
\* qualifiers, or arithmetic types.
CommonReference(Ts) ==
    \A i, j \in DOMAIN Ts :
        /\ Ts[i] # NoExpr
        /\ \/ Ts[i][1] = Ts[j][1]
           \/ {Ts[i][1], Ts[j][1]} = {"int", "bool"}

(***************************************************************************)
(* Readable's associated types.  A cursor over value type V declares       *)
(* reference as "&" (operator* returns V &) or "" (returns V by value).    *)
(***************************************************************************)
value_t(T) ==
    IF T.read = "readable" THEN <<T.value_type, "">> ELSE NoExpr

reference_t(T) ==
    IF T.read # "none" /\ T.value_type # NoType
        THEN <<T.value_type, T.reference>> ELSE NoExpr

\* decltype(indirect_move(i)): V && for a cursor that returns V &.
rvalue_reference_t(T) ==
    IF reference_t(T) = NoExpr THEN NoExpr
    ELSE IF T.reference = "&" THEN <<T.value_type, "&&">>
    ELSE <<T.value_type, "">>

\* common_reference_t<reference_t<I> &&, value_t<I> &>
common_reference_t(T) ==
    IF value_t(T) = NoExpr \/ reference_t(T) = NoExpr THEN NoExpr
    ELSE IF T.reference = "&" THEN <<T.value_type, "&">>
    ELSE <<T.value_type, "const &">>

(***************************************************************************)
(* Callables.  result_t is the type of the call, NoExpr when the call is   *)
(* not valid.                                                              *)
(*   ident        the identity, returning its argument as T &&             *)
(*   by_category  returns A for an rvalue argument and B for an lvalue     *)
(*   to_A         returns A for any argument                               *)
(*   lvalue_only  callable with a non-const lvalue alone, returns int &    *)
(*   to_bool      returns bool for any argument                            *)
(*   same_type    returns a copy of its argument                           *)
(*   A_only       callable with an A alone, returns bool                   *)
(***************************************************************************)
ident == "ident"

Projections == { ident, "by_category", "to_A", "lvalue_only" }

Callables == { "to_bool", "same_type", "A_only" }

\* Invokable::result_t<F, X>
result_t(F, X) ==
    IF X = NoExpr THEN NoExpr
    ELSE CASE F = ident         -> add_rvalue_reference(X)
           [] F = "by_category" -> IF X[2] \in {"", "&&"} THEN <<"A", "">>
                                                          ELSE <<"B", "">>
           [] F = "to_A"        -> <<"A", "">>
           [] F = "lvalue_only" -> IF X[2] = "&" THEN <<"int", "&">> ELSE NoExpr
           [] F = "to_bool"     -> <<"bool", "">>
           [] F = "same_type"   -> <<X[1], "">>
           [] F = "A_only"      -> IF X[1] = "A" THEN <<"bool", "">> ELSE NoExpr
           [] OTHER             -> NoExpr

\* Invokable<F, X>, RegularInvokable<F, X>
Invokable(F, X) == result_t(F, X) # NoExpr

RegularInvokable(F, X) == Invokable(F, X)

\* InvokablePredicate<F, X>: the call's result converts to bool.
InvokablePredicate(F, X) ==
    Invokable(F, X) /\ Convertible(result_t(F, X), <<"bool", "">>)

ordered_less == "ordered_less"

\* Invokable::result_t<C, X, Y> of a binary callable; ordered_less is x < y.
result_t2(C, X, Y) ==
    IF X = NoExpr \/ Y = NoExpr THEN NoExpr
    ELSE IF C = ordered_less /\ X[1] = Y[1] /\ less_than_comparable(X[1])
        THEN <<"bool", "">>
    ELSE NoExpr

\* InvokableRelation<C, X, Y>: C is a predicate on every pairing of X and Y.
InvokableRelation(C, X, Y) ==
    \A p \in { <<X, Y>>, <<Y, X>>, <<X, X>>, <<Y, Y>> } :
        /\ result_t2(C, p[1], p[2]) # NoExpr
        /\ Convertible(result_t2(C, p[1], p[2]), <<"bool", "">>)

(***************************************************************************)
(* Cursors of the indirect concepts: a candidate type together with its    *)
(* value type, the kind of its reference, and the types that can be        *)
(* assigned through it from an lvalue (copy_from) and an rvalue (move_from)*)
(***************************************************************************)
Cursor(category, eq, inc, v, r, cf, mf) ==
    [ shape |-> "class", iterator_category |-> category, ctor |-> "copy+default",
      equality |-> eq, read |-> "readable", integral_difference |-> TRUE,
      increment |-> inc, decrement |-> FALSE, arithmetic |-> FALSE,
      value_type |-> v, reference |-> r, copy_from |-> cf, move_from |-> mf ]

\* What *i = x accepts for a cursor over v whose operator* returns r.
AssignableByCopy(v, r) ==
    IF r = "&" /\ copy_constructible(v) THEN {v} ELSE {}

AssignableByMove(v, r) ==
    IF r = "&" /\ move_constructible(v) THEN {v} ELSE {}

\* Forward and input cursors over each element type, by reference and by value.
SourceTypes ==
    { Cursor(c[1], "==", c[2], v, r, AssignableByCopy(v, r), AssignableByMove(v, r)) :
        c \in { <<std_forward_iterator_tag, "I">>, <<std_input_iterator_tag, "proxy">> },
        v \in ElementTypes, r \in {"&", ""} }
    \cup
    \* an output-only cursor: operator* and no value type
    { [ Cursor(NoType, "none", "I", NoType, "&", {"int"}, {"int"})
            EXCEPT !.read = "deref" ] }

\* Destinations: an int cursor, a cursor over move-only elements, a sink that
\* takes anything and has no value type, a cursor over A where A can be
\* assigned an int and not constructed from one, and a cursor that is not
\* SemiRegular.
DestTypes ==
    { Cursor(std_forward_iterator_tag, "==", "I", "int", "&", {"int"}, {"int"}),
      Cursor(std_forward_iterator_tag, "==", "I", "unique", "&", {}, {"unique"}),
      [ Cursor(NoType, "none", "I", NoType, "&",
               {"int", "opaque", "A", "B"}, {"int", "opaque", "unique", "A", "B"})
            EXCEPT !.read = "deref" ],
      Cursor(std_forward_iterator_tag, "==", "I", "A", "&", {"A", "int"}, {"A", "int"}),
      [ Cursor(std_forward_iterator_tag, "==", "I", "int", "&", {"int"}, {"int"})
            EXCEPT !.ctor = "copy" ] }

(***************************************************************************)
(* MoveWritable, Writable, IndirectlyMovable, IndirectlyCopyable           *)
(***************************************************************************)
MoveWritable(Out, T) ==
    /\ SemiRegular(Out)
    /\ T # NoExpr
    /\ T[1] \in Out.move_from

Writable(Out, T) ==
    /\ MoveWritable(Out, T)
    /\ T[1] \in Out.copy_from

IndirectlyMovable(In, Out, Proj) ==
    /\ Readable(In)
    /\ SemiRegular(Out)
    /\ Convertible(add_rvalue_reference(rvalue_reference_t(In)), value_t(In))
    /\ RegularInvokable(Proj, add_rvalue_reference(rvalue_reference_t(In)))
    /\ RegularInvokable(Proj, add_rvalue_reference(value_t(In)))
    /\ MoveWritable(Out, result_t(Proj, add_rvalue_reference(rvalue_reference_t(In))))
    /\ MoveWritable(Out, result_t(Proj, add_rvalue_reference(value_t(In))))

\* Faulty variant: the conversion is tested on the rvalue reference type, as in
\* IndirectlyMovable.
IndirectlyCopyable_by_move(In, Out, Proj) ==
    /\ IndirectlyMovable(In, Out, Proj)
    /\ Readable(In)
    /\ SemiRegular(Out)
    /\ Convertible(add_rvalue_reference(rvalue_reference_t(In)), value_t(In))
    /\ RegularInvokable(Proj, add_rvalue_reference(reference_t(In)))
    /\ RegularInvokable(Proj, add_rvalue_reference(common_reference_t(In)))
    /\ RegularInvokable(Proj, add_const_lvalue_reference(value_t(In)))
    /\ Writable(Out, result_t(Proj, add_rvalue_reference(reference_t(In))))
    /\ Writable(Out, result_t(Proj, add_rvalue_reference(common_reference_t(In))))
    /\ Writable(Out, result_t(Proj, add_const_lvalue_reference(value_t(In))))

IndirectlyCopyable(In, Out, Proj) ==
    /\ IndirectlyMovable(In, Out, Proj)
    /\ Readable(In)
    /\ SemiRegular(Out)
    /\ Convertible(reference_t(In), value_t(In))
    /\ RegularInvokable(Proj, add_rvalue_reference(reference_t(In)))
    /\ RegularInvokable(Proj, add_rvalue_reference(common_reference_t(In)))
    /\ RegularInvokable(Proj, add_const_lvalue_reference(value_t(In)))
    /\ Writable(Out, result_t(Proj, add_rvalue_reference(reference_t(In))))
    /\ Writable(Out, result_t(Proj, add_rvalue_reference(common_reference_t(In))))
    /\ Writable(Out, result_t(Proj, add_const_lvalue_reference(value_t(In))))

(***************************************************************************)
(* The composite aliases.  Each is a meta::fast_and<...>: a type, true_type*)
(* or false_type, and ill-formed (NoType) when a default template argument *)
(* or a type named in its body fails to form.                              *)
(***************************************************************************)
true_type == "std::true_type"

false_type == "std::false_type"

\* The type of a concept query, concepts::models<...>.
bool_(b) == IF b THEN true_type ELSE false_type

\* meta::fast_and<Bs...>
fast_and(Bs) ==
    IF \E i \in DOMAIN Bs : Bs[i] = NoType THEN NoType
    ELSE IF \A i \in DOMAIN Bs : Bs[i] = true_type THEN true_type
    ELSE false_type

\* Faulty variant: the common reference is asked of the projected types themselves.
IndirectInvokable1_of_projection(F, In, Proj) ==
    LET X == result_t(Proj, value_t(In))
        Y == result_t(Proj, reference_t(In))
        Z == result_t(Proj, common_reference_t(In))
    IN  IF NoExpr \in {X, Y, Z} THEN NoType
        ELSE IF NoExpr \in {result_t(F, X), result_t(F, Y), result_t(F, Z)}
            THEN NoType
        ELSE fast_and(<< bool_(Invokable(F, X)),
                         bool_(Invokable(F, Y)),
                         bool_(Invokable(F, Z)),
                         bool_(CommonReference(<<X, Y, Z>>)) >>)

IndirectInvokable1(F, In, Proj) ==
    LET X == result_t(Proj, value_t(In))
        Y == result_t(Proj, reference_t(In))
        Z == result_t(Proj, common_reference_t(In))
    IN  IF NoExpr \in {X, Y, Z} THEN NoType
        ELSE IF NoExpr \in {result_t(F, X), result_t(F, Y), result_t(F, Z)}
            THEN NoType
        ELSE fast_and(<< bool_(Invokable(F, X)),
                         bool_(Invokable(F, Y)),
                         bool_(Invokable(F, Z)),
                         bool_(CommonReference(<< result_t(F, X),
                                                  result_t(F, Y),
                                                  result_t(F, Z) >>)) >>)

IndirectInvokablePredicate1(C, In, Proj) ==
    LET X == result_t(Proj, value_t(In))
        Y == result_t(Proj, reference_t(In))
        Z == result_t(Proj, common_reference_t(In))
    IN  IF NoExpr \in {X, Y, Z} THEN NoType
        ELSE fast_and(<< IndirectInvokable1(Proj, In, ident),
                         bool_(InvokablePredicate(C, X)),
                         bool_(InvokablePredicate(C, Y)),
                         bool_(InvokablePredicate(C, Z)) >>)

IndirectInvokableRelation(C, I0, I1, P0, P1) ==
    LET X0 == result_t(P0, value_t(I0))
        X1 == result_t(P1, value_t(I1))
        Y0 == result_t(P0, reference_t(I0))
        Y1 == result_t(P1, reference_t(I1))
        Z0 == result_t(P0, common_reference_t(I0))
        Z1 == result_t(P1, common_reference_t(I1))
    IN  IF NoExpr \in {X0, X1, Y0, Y1, Z0, Z1} THEN NoType
        ELSE fast_and(<< IndirectInvokable1(P0, I0, ident),
                         IndirectInvokable1(P1, I1, ident),
                         bool_(InvokableRelation(C, X0, X1)),
                         bool_(InvokableRelation(C, Y0, Y1)),
                         bool_(InvokableRelation(C, Z0, Z1)),
                         bool_(InvokableRelation(C, X0, Y1)),
                         bool_(InvokableRelation(C, Y0, X1)) >>)

Permutable(In) ==
    LET V == value_t(In)
    IN  IF V = NoExpr THEN NoType
        ELSE fast_and(<< bool_(ForwardIterator(In)),
                         bool_(Movable(V)),
                         bool_(IndirectlyMovable(In, In, ident)) >>)

\* Faulty variant: Permutable is left out of the conjunction.
Sortable_without_Permutable(In, C, Proj) ==
    fast_and(<< bool_(ForwardIterator(In)),
                IndirectInvokableRelation(C, In, In, Proj, Proj) >>)

Sortable(In, C, Proj) ==
    fast_and(<< bool_(ForwardIterator(In)),
                IndirectInvokableRelation(C, In, In, Proj, Proj),
                Permutable(In) >>)

(***************************************************************************)
(* SpecIndirect: a source cursor I, a destination O, a projection P and a  *)
(* callable Fun, and the indirect concepts instantiated with them.         *)
(***************************************************************************)
InitIndirect ==
    /\ I \in SourceTypes
    /\ O \in DestTypes
    /\ P \in Projections
    /\ Fun \in Callables
    /\ qual = ""
    /\ query = ""
    /\ result = NoType
    /\ orig = NoType
    /\ Reference = NoType
    /\ arg = NoType
    /\ cur = NoType
    /\ steps = <<>>
    /\ S = NoType
    /\ CommonT = NoType
    /\ facts = NoType
    /\ stack = <<>>
    /\ ret = <<>>
    /\ count = 0

QueryIndirectlyMovable ==
    Instantiate("IndirectlyMovable<I, O, P>", "", IndirectlyMovable(I, O, P))

QueryIndirectlyCopyable ==
    Instantiate("IndirectlyCopyable<I, O, P>", "", IndirectlyCopyable(I, O, P))

QueryIndirectInvokable1 ==
    \/ Instantiate("IndirectInvokable1<Fun, I, P>", "", IndirectInvokable1(Fun, I, P))
    \/ Instantiate("IndirectInvokable1<P, I>", "", IndirectInvokable1(P, I, ident))

QueryIndirectInvokablePredicate1 ==
    Instantiate("IndirectInvokablePredicate1<Fun, I, P>", "",
                IndirectInvokablePredicate1(Fun, I, P))

QueryIndirectInvokableRelation ==
    Instantiate("IndirectInvokableRelation<ordered_less, I, I, P, P>", "",
                IndirectInvokableRelation(ordered_less, I, I, P, P))

QueryPermutable == Instantiate("Permutable<I>", "", Permutable(I))

QuerySortable == Instantiate("Sortable<I>", "", Sortable(I, ordered_less, ident))

NextIndirect ==
    \/ QueryIndirectlyMovable
    \/ QueryIndirectlyCopyable
    \/ QueryIndirectInvokable1
    \/ QueryIndirectInvokablePredicate1
    \/ QueryIndirectInvokableRelation
    \/ QueryPermutable
    \/ QuerySortable

SpecIndirect == InitIndirect /\ [][NextIndirect]_vars

(***************************************************************************)
(* IteratorRange and SizedIteratorRange: a cursor type I and a sentinel    *)
(* type S.  The types of a query are named "I", "S" and "C" (the common    *)
(* type of I and S when it is neither of them); two names are the same     *)
(* type exactly when they are equal.  A type carries one more declaration: *)
(*   minus   the type of x - y for two objects of the type, NoType when    *)
(*           the expression is not valid                                   *)
(* and facts records what the declarations say about I and S together:     *)
(*   same            S is the type I                                       *)
(*   cross_equality  EqualityComparable<I, S>                              *)
(*   common_type     the name of common_type_t<I, S>, NoType without one   *)
(*   s_minus_i       the type of s - i, NoType when it is not valid        *)
(*   i_minus_s       the type of i - s, NoType when it is not valid        *)
(***************************************************************************)
\* The deepest stack of instantiations the model follows.
MaxDepth == 4

\* concepts::Integral on the type of an expression
Integral(T) == T \in { "int", "std::ptrdiff_t" }

RangeType(c, e, it, mn) ==
    [ shape |-> "class", iterator_category |-> NoType, ctor |-> c,
      equality |-> e, read |-> IF it THEN "readable" ELSE "none",
      integral_difference |-> TRUE, increment |-> IF it THEN "I" ELSE "none",
      decrement |-> FALSE, arithmetic |-> FALSE, minus |-> mn ]

CursorTypes ==
    { RangeType("copy+default", e, TRUE, mn) :
        e \in {"none", "=="}, mn \in {NoType, "std::ptrdiff_t"} }
    \cup { RangeType("copy+default", "==", TRUE, "double") }

SentinelTypes ==
    { RangeType(c, e, FALSE, NoType) :
        c \in {"copy", "copy+default"}, e \in {"none", "=="} }
    \cup { RangeType("copy+default", "==", TRUE, mn) :
            mn \in {NoType, "std::ptrdiff_t"} }

CommonTypes ==
    { RangeType("copy+default", "==", TRUE, "std::ptrdiff_t"),
      RangeType("copy+default", "==", TRUE, "double"),
      RangeType("copy+default", "==", FALSE, "std::ptrdiff_t") }

PairFacts ==
    [ same : {FALSE},
      cross_equality : BOOLEAN,
      common_type : {NoType, "I", "S", "C"},
      s_minus_i : {NoType, "std::ptrdiff_t", "double"},
      i_minus_s : {NoType, "std::ptrdiff_t", "int"} ]

\* S is I: nothing is said about two types.
SameFacts ==
    [ same |-> TRUE, cross_equality |-> FALSE, common_type |-> "I",
      s_minus_i |-> NoType, i_minus_s |-> NoType ]

TypeOf(n) ==
    CASE n = "I" -> I
      [] n = "S" -> S
      [] n = "C" -> CommonT

\* The name of the template argument S.
SentinelName == IF facts.same THEN "I" ELSE "S"

\* concepts::EqualityComparable<T, U>
EqualityComparable2(a, b) ==
    IF a = b THEN EqualityComparable(TypeOf(a))
    ELSE IF {a, b} = {"I", "S"} THEN facts.cross_equality
    ELSE FALSE

\* The type of x - y for x of type a and y of type b.
minus(a, b) ==
    IF a = b THEN TypeOf(a).minus
    ELSE IF a = "S" /\ b = "I" THEN facts.s_minus_i
    ELSE IF a = "I" /\ b = "S" THEN facts.i_minus_s
    ELSE NoType

\* common_type_t<T, U>: the type both convert to.
common_type_t(a, b) ==
    IF a = b THEN a
    ELSE IF {a, b} = {"I", "S"} THEN facts.common_type
    ELSE "C"

\* concepts::Common<T, U>
Common(a, b) == common_type_t(a, b) # NoType

\* Faulty variant: the sentinel need only be SemiRegular.
IteratorRange_semiregular(a, b) ==
    /\ Iterator(TypeOf(a))
    /\ SemiRegular(TypeOf(b))
    /\ EqualityComparable2(a, b)

IteratorRange(a, b) ==
    /\ Iterator(TypeOf(a))
    /\ Regular(TypeOf(b))
    /\ EqualityComparable2(a, b)

SizedIteratorRangeLike_(a, b) ==
    /\ IteratorRange(a, b)
    /\ Integral(minus(b, a))
    /\ minus(b, a) = minus(a, b)

\* SizedIteratorRange::requires_(I i, I s), chosen when S is I.
SameTypeRule(a) == Integral(minus(a, a))

\* Faulty variant: i - s is not looked at.
DifferentTypeRule_one_way(a, b) ==
    /\ Common(a, b)
    /\ Integral(minus(b, a))

\* SizedIteratorRange::requires_(I i, S s), chosen when S is not I: the
\* requirements that are no SizedIteratorRange queries.
DifferentTypeRule(a, b) ==
    /\ Common(a, b)
    /\ Integral(minus(b, a))
    /\ minus(b, a) = minus(a, b)

\* Faulty variant: the second nested query keeps the sentinel.
CommonPair_with_sentinel(a, b) == << common_type_t(a, b), b >>

\* The arguments of the nested query model_of<SizedIteratorRange, C, C>.
CommonPair(a, b) == << common_type_t(a, b), common_type_t(a, b) >>

RECURSIVE most_refined_of(_, _)
\* concepts::most_refined<meta::list<Concepts...>, I, S>, given for each
\* concept whether the pair models it.
most_refined_of(Concepts, holds) ==
    IF Concepts = <<>> THEN NoType
    ELSE IF holds[Head(Concepts)] THEN Head(Concepts)
    ELSE most_refined_of(Tail(Concepts), holds)

sized_iterator_range_concept_list == << "SizedIteratorRange", "IteratorRange" >>

(***************************************************************************)
(* SpecRange: the instantiations made for one pair of types.  A            *)
(* SizedIteratorRange query is followed step by step: stack holds the      *)
(* queries in progress, the outermost first, each with the place it has    *)
(* reached in its requires_.  A query ends at the first requirement that   *)
(* fails.                                                                  *)
(***************************************************************************)
Frame(a, b) == [ I |-> a, S |-> b, pc |-> "requires_" ]

Top == stack[Len(stack)]

InitRange ==
    /\ I \in CursorTypes
    /\ facts \in PairFacts \cup { SameFacts }
    /\ S \in IF facts.same THEN { I } ELSE SentinelTypes
    /\ CommonT \in IF facts.common_type = "C" THEN CommonTypes ELSE { NoType }
    /\ stack = <<>>
    /\ ret = <<>>
    /\ count = 0
    /\ O = NoType
    /\ P = NoType
    /\ Fun = NoType
    /\ qual = ""
    /\ query = ""
    /\ result = NoType
    /\ orig = NoType
    /\ Reference = NoType
    /\ arg = NoType
    /\ cur = NoType
    /\ steps = <<>>

QueryIteratorRange ==
    /\ stack = <<>>
    /\ Instantiate("IteratorRange<I, S>", "", IteratorRange("I", SentinelName))

QuerySizedIteratorRangeLike_ ==
    /\ stack = <<>>
    /\ Instantiate("SizedIteratorRangeLike_<I, S>", "",
                   SizedIteratorRangeLike_("I", SentinelName))

\* The outermost SizedIteratorRange query is entered.
Begin(name) ==
    /\ query' = name
    /\ qual' = ""
    /\ result' = NoType
    /\ stack' = << Frame("I", SentinelName) >>
    /\ ret' = <<>>
    /\ count' = 1
    /\ UNCHANGED <<I, S, CommonT, facts, tagvars, argvars>>

QuerySizedIteratorRange ==
    /\ stack = <<>>
    /\ Begin("SizedIteratorRange<I, S>")

QuerySizedIteratorRangeConcept ==
    /\ stack = <<>>
    /\ Begin("sized_iterator_range_concept<I, S>")

\* What the outermost query leaves as the result of the template.
Answer(v) ==
    IF query = "SizedIteratorRange<I, S>" THEN v
    ELSE most_refined_of(sized_iterator_range_concept_list,
            [ SizedIteratorRange |-> v,
              IteratorRange |-> IteratorRange(stack[1].I, stack[1].S) ])

\* The query on top of the stack ends with the answer v.
Return(v) ==
    IF Len(stack) = 1
    THEN /\ stack' = <<>>
         /\ ret' = <<>>
         /\ result' = Answer(v)
    ELSE /\ stack' = SubSeq(stack, 1, Len(stack) - 1)
         /\ ret' = << v >>
         /\ result' = result

\* The query on top of the stack goes on at pc after a nested query on pair.
Nested(pair, pc) ==
    /\ Len(stack) < MaxDepth
    /\ stack' = Append([stack EXCEPT ![Len(stack)].pc = pc],
                       Frame(pair[1], pair[2]))
    /\ ret' = <<>>
    /\ result' = result
    /\ count' = count + 1

\* The rule for S = I: no nested query.
EvalSameType ==
    /\ stack # <<>>
    /\ Top.I = Top.S
    /\ Return(IteratorRange(Top.I, Top.I) /\ SameTypeRule(Top.I))
    /\ UNCHANGED <<I, qual, query, S, CommonT, facts, count, tagvars, argvars>>

\* The rule for S # I is chosen: without a common type the default
\* template argument C fails; with one, SizedIteratorRange<I, I> is asked.
EvalDifferentType ==
    /\ stack # <<>>
    /\ Top.I # Top.S
    /\ Top.pc = "requires_"
    /\ IF common_type_t(Top.I, Top.S) = NoType
       THEN Return(FALSE) /\ count' = count
       ELSE Nested(<< Top.I, Top.I >>, "I, I")
    /\ UNCHANGED <<I, qual, query, S, CommonT, facts, tagvars, argvars>>

\* SizedIteratorRange<I, I> has answered; SizedIteratorRange<C, C> is asked.
EvalCommonType ==
    /\ stack # <<>>
    /\ Top.pc = "I, I"
    /\ ret # <<>>
    /\ IF ~ret[1]
       THEN Return(FALSE) /\ count' = count
       ELSE Nested(CommonPair(Top.I, Top.S), "C, C")
    /\ UNCHANGED <<I, qual, query, S, CommonT, facts, tagvars, argvars>>

\* SizedIteratorRange<C, C> has answered; the other requirements decide.
EvalFinish ==
    /\ stack # <<>>
    /\ Top.pc = "C, C"
    /\ ret # <<>>
    /\ Return(/\ ret[1]
              /\ IteratorRange(Top.I, Top.S)
              /\ DifferentTypeRule(Top.I, Top.S))
    /\ UNCHANGED <<I, qual, query, S, CommonT, facts, count, tagvars, argvars>>

Evaluate == EvalSameType \/ EvalDifferentType \/ EvalCommonType \/ EvalFinish

NextRange ==
    \/ QueryIteratorRange
    \/ QuerySizedIteratorRangeLike_
    \/ QuerySizedIteratorRange
    \/ QuerySizedIteratorRangeConcept
    \/ EvalSameType
    \/ EvalDifferentType
    \/ EvalCommonType
    \/ EvalFinish

SpecRange == InitRange /\ [][NextRange]_vars

(***************************************************************************)
(* Claims about the tag conversions (SpecTag).                             *)
(***************************************************************************)
LastStep == IF steps = <<>> THEN "" ELSE steps[Len(steps)]

\* The standard tag that carries the same name as a native tag.
SameNamedExternal(t) ==
    CASE t = input_iterator_tag         -> std_input_iterator_tag
      [] t = forward_iterator_tag       -> std_forward_iterator_tag
      [] t = bidirectional_iterator_tag -> std_bidirectional_iterator_tag
      [] t = random_access_iterator_tag -> std_random_access_iterator_tag
      [] OTHER                          -> NoType

StrongNativeTags == NativeTags \ { weak_input_iterator_tag }

RECURSIVE NativeStrength(_)
\* The number of tags a native tag derives from.
NativeStrength(t) == IF TagBase(t) = "" THEN 0 ELSE 1 + NativeStrength(TagBase(t))

\* The standard library's own order of its four tags (input weakest).
ExternalStrength(t) ==
    CASE t = std_input_iterator_tag         -> 1
      [] t = std_forward_iterator_tag       -> 2
      [] t = std_bidirectional_iterator_tag -> 3
      [] t = std_random_access_iterator_tag -> 4
      [] OTHER                              -> 0

\* C4: as_std_iterator_category<Tag, Reference> maps native input to std
\* input for any Reference; native forward, bidirectional and random-access
\* to the same-named std tag when Reference is a reference type and to std
\* input when it is not; native weak-input to no type at all.
C4_ToExternalTag ==
    (LastStep = "as_std" /\ arg \in NativeTags) =>
        cur = CASE arg = weak_input_iterator_tag -> NoType
                [] arg = input_iterator_tag      -> std_input_iterator_tag
                [] OTHER -> IF is_reference(Reference)
                                THEN SameNamedExternal(arg)
                                ELSE std_input_iterator_tag

\* C4 witness: a forward tag with a value Reference has come out as std input.
C4_Witness ==
    /\ LastStep = "as_std"
    /\ arg = forward_iterator_tag
    /\ ~is_reference(Reference)
    /\ cur = std_input_iterator_tag

\* C5: with a genuine reference type R both round trips are the identity
\* (std -> native -> std on the four std tags, native -> std -> native on the
\* four strong native tags); with a value type R every tag comes back as the
\* input tag, so the round trip holds for input alone.
C5_RoundTrip ==
    /\ (steps = <<"as_ranges", "as_std">> /\ orig \in ExternalTags) =>
            /\ is_reference(Reference) => cur = orig
            /\ ~is_reference(Reference) =>
                    (cur = std_input_iterator_tag /\
                     (cur = orig <=> orig = std_input_iterator_tag))
    /\ (steps = <<"as_std", "as_ranges">> /\ orig \in StrongNativeTags) =>
            /\ is_reference(Reference) => cur = orig
            /\ ~is_reference(Reference) =>
                    (cur = input_iterator_tag /\
                     (cur = orig <=> orig = input_iterator_tag))

\* C5 witness: std bidirectional has gone to native and back unchanged, and
\* is a tag that a value Reference would not have brought back.
C5_Witness ==
    /\ steps = <<"as_ranges", "as_std">>
    /\ orig = std_bidirectional_iterator_tag
    /\ is_reference(Reference)
    /\ cur = orig

\* C6 as stated: as_ranges_iterator_category has a result for the four std
\* tags only; any other argument is an error (no type).
C6_NoFallback ==
    (LastStep = "as_ranges" /\ arg \notin ExternalTags) => cur = NoType

\* C6 amended: the four std tags go to the native tag of the same strength
\* (so order is preserved); any other argument comes back unchanged, with no
\* error.
C6_IdentityFallback ==
    LastStep = "as_ranges" =>
        IF arg \in ExternalTags
            THEN /\ cur \in StrongNativeTags
                 /\ NativeStrength(cur) = ExternalStrength(arg)
            ELSE cur = arg

\* C6 witness: a type that is no std tag has passed through unchanged.
C6_Witness ==
    /\ LastStep = "as_ranges"
    /\ arg = "user::my_tag"
    /\ cur = "user::my_tag"

(***************************************************************************)
(* Claims about the iterator tiers (Spec).                                 *)
(***************************************************************************)
\* C1: iterator_concept<T> tests RandomAccessIterator, BidirectionalIterator,
\* ForwardIterator, InputIterator, WeakInputIterator in that order and
\* yields the first one T satisfies; when T satisfies none it yields no type.
C1_FirstSatisfiedTier ==
    query = "iterator_concept" =>
        result = IF RandomAccessIterator(I) THEN "RandomAccessIterator"
                 ELSE IF BidirectionalIterator(I) THEN "BidirectionalIterator"
                 ELSE IF ForwardIterator(I) THEN "ForwardIterator"
                 ELSE IF InputIterator(I) THEN "InputIterator"
                 ELSE IF WeakInputIterator(I) THEN "WeakInputIterator"
                 ELSE NoType

\* C1 witness: a class that satisfies three tiers has been classified as the
\* strongest of them.
C1_Witness ==
    /\ query = "iterator_concept"
    /\ result = "ForwardIterator"
    /\ I.shape = "class"
    /\ InputIterator(I) /\ WeakInputIterator(I)

\* C2: a type that satisfies a tier satisfies every weaker tier when each is
\* queried on its own, and iterator_concept of a RandomAccessIterator is
\* RandomAccessIterator, never a weaker tier.
C2_TiersMonotonic ==
    /\ (query = "RandomAccessIterator" /\ result = TRUE) =>
            /\ BidirectionalIterator(I) /\ ForwardIterator(I)
            /\ InputIterator(I) /\ WeakInputIterator(I)
            /\ iterator_concept(I) = "RandomAccessIterator"
    /\ (query = "BidirectionalIterator" /\ result = TRUE) =>
            ForwardIterator(I) /\ InputIterator(I) /\ WeakInputIterator(I)
    /\ (query = "ForwardIterator" /\ result = TRUE) =>
            InputIterator(I) /\ WeakInputIterator(I)
    /\ (query = "InputIterator" /\ result = TRUE) => WeakInputIterator(I)

\* C2 witness: a class type has been found to be a RandomAccessIterator.
C2_Witness ==
    /\ query = "RandomAccessIterator"
    /\ result = TRUE
    /\ I.shape = "class"

\* C3: SinglePass<I> is true exactly when I is a WeakInputIterator and not a
\* ForwardIterator: true for a WeakInputIterator without equality and for an
\* InputIterator that is not Forward, false for every ForwardIterator and for
\* every type that is no WeakInputIterator.
C3_SinglePass ==
    query = "SinglePass" =>
        /\ result = (WeakInputIterator(I) /\ ~ForwardIterator(I))
        /\ iterator_concept(I) \in {"WeakInputIterator", "InputIterator"}
                => result = TRUE
        /\ ForwardIterator(I) => result = FALSE
        /\ ~WeakInputIterator(I) => result = FALSE

\* C3 witness: a readable cursor with no equality comparison is single-pass.
C3_Witness ==
    /\ query = "SinglePass"
    /\ result = TRUE
    /\ I.equality = "none"
    /\ iterator_concept(I) = "WeakInputIterator"

\* C7: iterator_category_type<T>, whatever qualifiers T carries, is the
\* random-access tag for a raw pointer, else the member iterator_category
\* passed through as_ranges_iterator_category, else undefined.
C7_CapabilityTagOf ==
    query = "iterator_category_type" =>
        result = IF I.shape = "pointer" THEN random_access_iterator_tag
                 ELSE IF I.iterator_category # NoType
                    THEN as_ranges_iterator_category(I.iterator_category)
                 ELSE NoType

\* C7 witness: a const-qualified pointer has been given the random-access tag.
C7_Witness ==
    /\ query = "iterator_category_type"
    /\ I.shape = "pointer"
    /\ qual = "const"
    /\ result = random_access_iterator_tag

(***************************************************************************)
(* Claims about the indirect and composite concepts (SpecIndirect).        *)
(***************************************************************************)
\* C8: with the default relation ordered_less and the identity projection,
\* Sortable<I> holds exactly when I is a ForwardIterator, Permutable<I> holds
\* (the value type of I is Movable and IndirectlyMovable<I, I>), and
\* IndirectInvokableRelation<ordered_less, I, I> holds.
C8_Sortable ==
    query = "Sortable<I>" =>
        ((result = true_type) <=>
            /\ ForwardIterator(I)
            /\ Movable(value_t(I))
            /\ IndirectlyMovable(I, I, ident)
            /\ IndirectInvokableRelation(ordered_less, I, I, ident, ident)
                    = true_type)

\* C8 witness: a forward cursor over move-only, ordered elements is Sortable.
C8_Witness ==
    /\ query = "Sortable<I>"
    /\ result = true_type
    /\ I.value_type = "unique"

\* The case of C9: P returns a type for the value type of I and another for
\* its reference type, and the two have no common reference.
ProjectionSplits ==
    LET A == result_t(P, value_t(I))
        B == result_t(P, reference_t(I))
    IN  A # NoExpr /\ B # NoExpr /\ ~CommonReference(<<A, B>>)

\* C9 as stated: when P's results on the value type and the reference type
\* of I have no common reference, IndirectInvokable1<Fun, I, P> does not hold.
C9_SplitProjectionRejected ==
    (query = "IndirectInvokable1<Fun, I, P>" /\ ProjectionSplits) =>
        result # true_type

\* C9 amended: for such a P the projection itself fails as an indirect
\* callable, IndirectInvokable1<P, I> is false, and so is
\* IndirectInvokablePredicate1<Fun, I, P>, which tests it; while
\* IndirectInvokable1<Fun, I, P> asks for a common reference of the results
\* of Fun alone, and holds exactly when Fun accepts the three projected types
\* and its results share one.
C9_CallableResultsDecide ==
    ProjectionSplits =>
        /\ query = "IndirectInvokable1<P, I>" => result = false_type
        /\ query = "IndirectInvokablePredicate1<Fun, I, P>" => result = false_type
        /\ query = "IndirectInvokable1<Fun, I, P>" =>
            LET X == result_t(P, value_t(I))
                Y == result_t(P, reference_t(I))
                Z == result_t(P, common_reference_t(I))
            IN  (result = true_type) <=>
                    /\ Invokable(Fun, X) /\ Invokable(Fun, Y) /\ Invokable(Fun, Z)
                    /\ CommonReference(<< result_t(Fun, X), result_t(Fun, Y),
                                          result_t(Fun, Z) >>)

\* C9 witness: a callable that maps both of P's result types to bool has been
\* accepted through a projection whose results have no common reference.
C9_Witness ==
    /\ query = "IndirectInvokable1<Fun, I, P>"
    /\ ProjectionSplits
    /\ Fun = "to_bool"
    /\ result = true_type

\* C10 as stated: IndirectlyCopyable<I, O, P> requires the reference type of
\* I to convert to the value type of the destination O (read here only of
\* destinations that have a value type).
C10_ConvertsToDestinationValue ==
    (query = "IndirectlyCopyable<I, O, P>" /\ result = TRUE
        /\ value_t(O) # NoExpr) =>
            Convertible(reference_t(I), value_t(O))

\* C10 amended: IndirectlyCopyable<I, O, P> implies IndirectlyMovable<I, O, P>
\* and requires the reference type of I to convert to the value type of I
\* itself; a source for which that conversion does not exist is never
\* IndirectlyCopyable, whatever the destination.
C10_ConvertsToSourceValue ==
    query = "IndirectlyCopyable<I, O, P>" =>
        /\ result = TRUE =>
                /\ IndirectlyMovable(I, O, P)
                /\ Convertible(reference_t(I), value_t(I))
        /\ ~Convertible(reference_t(I), value_t(I)) => result = FALSE

\* C10 witness: an int cursor is IndirectlyCopyable into a cursor over A,
\* although int & does not convert to A.
C10_Witness ==
    /\ query = "IndirectlyCopyable<I, O, P>"
    /\ result = TRUE
    /\ I.value_type = "int"
    /\ O.value_type = "A"
    /\ IndirectlyMovable(I, O, P)
    /\ ~Convertible(reference_t(I), value_t(O))

(***************************************************************************)
(* Claims about the tier and the declared category (Spec).                 *)
(***************************************************************************)
\* The category tag each tier asks for.
TierTag(tier) ==
    CASE tier = "WeakInputIterator"     -> weak_input_iterator_tag
      [] tier = "InputIterator"         -> input_iterator_tag
      [] tier = "ForwardIterator"       -> forward_iterator_tag
      [] tier = "BidirectionalIterator" -> bidirectional_iterator_tag
      [] tier = "RandomAccessIterator"  -> random_access_iterator_tag

\* C14: whenever iterator_concept<T> is defined, the category tag of T is
\* the tag of the selected tier or derives from it; a type whose tag is the
\* input or the weak-input tag is never a ForwardIterator or above, whatever
\* it can do, and is SinglePass whenever it is a WeakInputIterator.
C14_TierWithinCategory ==
    LET tag == iterator_category_type(I, "")
        weak == tag \in {input_iterator_tag, weak_input_iterator_tag}
    IN  /\ (query = "iterator_concept" /\ result # NoType) =>
                Derived(tag, TierTag(result))
        /\ (query \in {"ForwardIterator", "BidirectionalIterator",
                        "RandomAccessIterator"} /\ weak) => result = FALSE
        /\ (query = "iterator_concept" /\ weak) =>
                result \in {NoType, "WeakInputIterator", "InputIterator"}
        /\ (query = "SinglePass" /\ weak /\ WeakInputIterator(I)) =>
                result = TRUE

\* C14 witness: a class with every random-access operation and the input
\* tag has been classified InputIterator.
C14_Witness ==
    /\ query = "iterator_concept"
    /\ result = "InputIterator"
    /\ I.iterator_category = std_input_iterator_tag
    /\ I.increment = "I" /\ I.decrement /\ I.arithmetic /\ I.equality = "<"

(***************************************************************************)
(* Claims about the associated types (SpecLazy).                           *)
(***************************************************************************)
ConceptNames ==
    { "Readable", "WeaklyIncrementable", "Incrementable", "WeakIterator",
      "Iterator", "WeakInputIterator", "InputIterator", "ForwardIterator",
      "BidirectionalIterator", "RandomAccessIterator" }

UntaggedConcepts ==
    { "Readable", "WeaklyIncrementable", "Incrementable", "WeakIterator",
      "Iterator" }

\* C13: the associated types are extracted only where they are named.  No
\* concept names pointer_type: the answer of Readable and of every tier is
\* the same for a type without operator-> (whose pointer_type is undefined)
\* as for the same type with one.  Readable, WeaklyIncrementable,
\* Incrementable, WeakIterator and Iterator do not name the category tag:
\* their answer is the same with and without a member iterator_category.
\* For a type without a category tag every query of WeakInputIterator or a
\* stronger tier has an answer, and the answer is false.
C13_LazyAssociatedTypes ==
    /\ (query = "pointer_type" /\ I.shape # "pointer" /\ I.arrow = NoType) =>
            result \in {NoType, HardError}
    /\ (query \in ConceptNames /\ I.shape = "class") =>
            /\ result = models(query, WithArrow(I, NoType))
            /\ result = models(query, WithArrow(I, "value_type *"))
    /\ (query \in UntaggedConcepts /\ I.shape = "class") =>
            result = models(query, WithCategory(I, NoType))
    /\ (query \in ConceptNames \ UntaggedConcepts
            /\ iterator_category_type(I, "") = NoType) =>
            result = FALSE

\* C13 witness: a class with neither operator-> nor a member
\* iterator_category has been found to be an Iterator.
C13_Witness ==
    /\ query = "Iterator"
    /\ result = TRUE
    /\ I.shape = "class"
    /\ I.arrow = NoType
    /\ pointer_t(I) = HardError
    /\ iterator_category_type(I, "") = NoType

(***************************************************************************)
(* Claims about cursor/sentinel pairs (SpecRange).                         *)
(***************************************************************************)
\* EqualityComparable<I, S> as the declarations of the pair give it.
CrossEquality ==
    IF facts.same THEN I.equality # "none" ELSE facts.cross_equality

\* C11 as stated: IteratorRange<I, S> holds exactly when I is an Iterator, S
\* is SemiRegular and I and S are cross-type equality comparable, with no
\* equality of S with itself required.
C11_SemiRegularSentinel ==
    query = "IteratorRange<I, S>" =>
        result = (Iterator(I) /\ S.ctor = "copy+default" /\ CrossEquality)

\* C11: IteratorRange<I, S> holds exactly when I is an Iterator, S is
\* Regular (default constructible, copyable, and equality comparable with
\* itself) and I and S are cross-type equality comparable.
C11_RegularSentinel ==
    query = "IteratorRange<I, S>" =>
        result = (/\ Iterator(I)
                  /\ S.ctor = "copy+default"
                  /\ S.equality # "none"
                  /\ CrossEquality)

\* C11 witness: an Iterator and a SemiRegular sentinel that compare with
\* each other were found not to be an IteratorRange, the sentinel having no
\* equality with itself.
C11_Witness ==
    /\ query = "IteratorRange<I, S>"
    /\ result = FALSE
    /\ ~facts.same
    /\ Iterator(I)
    /\ S.ctor = "copy+default"
    /\ S.equality = "none"
    /\ facts.cross_equality

\* The same-type rule as the claim words it, for the type named n.
SizedWithItself(n) ==
    /\ Iterator(TypeOf(n))
    /\ TypeOf(n).minus \in {"int", "std::ptrdiff_t"}

\* C12: for S different from I, SizedIteratorRange<I, S> holds only when
\* IteratorRange<I, S> holds, I and S have a common type C, (C, C) is a
\* SizedIteratorRange, and s - i and i - s have the same integral type; for
\* S = I it holds exactly when IteratorRange<I, I> holds and s - i is
\* integral.  sized_iterator_range_concept<I, S> is SizedIteratorRange when
\* that holds, else IteratorRange when that holds, else no type.
C12_SizedIteratorRange ==
    LET range == /\ Iterator(I)
                 /\ S.ctor = "copy+default"
                 /\ S.equality # "none"
                 /\ CrossEquality
        needed == /\ range
                  /\ facts.common_type # NoType
                  /\ SizedWithItself(facts.common_type)
                  /\ facts.s_minus_i \in {"int", "std::ptrdiff_t"}
                  /\ facts.i_minus_s = facts.s_minus_i
        sized == IF facts.same THEN SizedWithItself("I")
                 ELSE needed /\ SizedWithItself("I")
    IN  /\ (query = "SizedIteratorRange<I, S>" /\ stack = <<>>) =>
            IF facts.same THEN result = SizedWithItself("I")
            ELSE result => needed
        /\ (query = "sized_iterator_range_concept<I, S>" /\ stack = <<>>) =>
            result = IF sized THEN "SizedIteratorRange"
                     ELSE IF range THEN "IteratorRange"
                     ELSE NoType

\* C12 witness: a cursor and a sentinel of another type, with a third type
\* as their common type, have been found to be a SizedIteratorRange.
C12_Witness ==
    /\ query = "SizedIteratorRange<I, S>"
    /\ stack = <<>>
    /\ ~facts.same
    /\ facts.common_type = "C"
    /\ result = TRUE

\* C15: the evaluation of SizedIteratorRange<I, S> ends.  A nested query is
\* made by the rule for different types only, on (I, I) or on (C, C) with C
\* the common type; the rule for equal types makes none; so there is never
\* more than one query below the outermost one, never more than three
\* queries in all, and a query in progress always has a next step.
C15_RecursionDepthOne ==
    /\ Len(stack) <= 2
    /\ count <= 3
    /\ Len(stack) = 2 =>
        /\ stack[1].I # stack[1].S
        /\ stack[2].I = stack[2].S
        /\ stack[2].I \in { stack[1].I, common_type_t(stack[1].I, stack[1].S) }
    /\ (stack # <<>> /\ Top.I = Top.S) => Top.pc = "requires_"
    /\ stack # <<>> => ENABLED Evaluate

\* C15 witness: the query on (C, C), C a third type, is in progress below
\* the outermost query.
C15_Witness ==
    /\ Len(stack) = 2
    /\ facts.common_type = "C"
    /\ stack[1].pc = "C, C"
    /\ Top.I = "C" /\ Top.S = "C"

=============================================================================
